---- MODULE Spec2Model ----
(***************************************************************************)
(* Model of the sqlite load harness (src/main.go): run() fans out          *)
(* createAndTestDb over several goroutines, every createAndTestDb fills a  *)
(* table with inserts() and then starts one selects() goroutine per        *)
(* read-only handle; run() then aggregates the engine statistics of every  *)
(* connection the open hook has registered, waits for a signal and calls   *)
(* the close functions it collected.                                       *)
(*                                                                         *)
(* A goroutine is a process of the model and its position in the code is   *)
(* its pc.  Every engine call (MkdirTemp, Open, Exec, Begin, Prepare,      *)
(* Commit, Query, Scan, Close, db_status) either succeeds or fails: the    *)
(* failure is a nondeterministic branch of the action that makes the call. *)
(* database/sql opens the engine connection of a handle lazily, at the     *)
(* first statement run on the handle, and the connection hook runs then.   *)
(* A panic runs the deferred calls of its goroutine and only afterwards    *)
(* terminates the process (Crash): the goroutines that are not panicking   *)
(* keep running in between.  The signal is delivered to ch once            *)
(* signal.Notify has run; a signal before that ends the process at once    *)
(* and is left out.                                                        *)
(***************************************************************************)
EXTENDS Integers, Sequences, FiniteSets, TLC

\* Bounds of the model: run() passes 10 instances, 10000 rows, 10 readers
\* and batches of 100 (src/main.go:51, 54, 121).
MaxInstances == 2
MaxReaders == 2
MaxRows == 3
CommitEvery == 2
\* engine calls that fail in one run, at most
MaxFaults == 1
\* manager and reader goroutines of one run, at most
MaxGoroutines == 4
\* rows written in one run, over all instances, at most
MaxTotalRows == 6

Instances == 1..MaxInstances
Readers == 1..MaxReaders

\* The write handle of instance m is <<m, 0>>, its r-th read-only handle <<m, r>>;
\* the goroutine that uses a handle has the same identity.
Handles == Instances \X (0..MaxReaders)

VARIABLES
    instanceCount,    \* number of lifecycle managers run() starts
    insertsN,         \* createAndTestDb's insertsN
    parallelSelects,  \* createAndTestDb's parallelSelects
    mainPc,           \* position of run()
    spawned,          \* loop counter i of run()'s spawn loop
    wgRun,            \* counter of run()'s WaitGroup
    mu,               \* holder of the mutex mu, or <<0, 0>> when it is free
    conns,            \* the connection registry, a sequence of handles
    closeFuncs,       \* the collected close functions, a sequence of instances
    aggCount,         \* calls of printSqliteMemoryUsageForAllDbs so far
    sigReceived,      \* the shutdown signal has been delivered to ch
    closeIdx,         \* index in closeFuncs of the close function being run
    closePos,         \* inside a close function: number of roDbs closed so far
    closeErr,         \* the error run() panicked with at teardown, if any
    panicking,        \* some goroutine has panicked
    exited,           \* "running", "crashed" (panic) or "returned" (run() returned)
    mgrPc,            \* position of each createAndTestDb goroutine
    mgrResult,        \* what createAndTestDb returned: "none", "ok" or "err"
    dir,              \* temporary directory: "none", "exists" or "removed"
    handle,           \* state of each handle
    table,            \* committed rows of each instance (sequence of keys)
    tableExists,      \* the table t has been created
    txRows,           \* rows of the open transaction of each instance
    txOpen,           \* the write handle has a transaction open
    insI,             \* inserts' loop variable i
    insJ,             \* inserts' loop variable j
    txCount,          \* transactions begun by inserts
    prepCount,        \* statements prepared by inserts
    stmtOpen,         \* inserts has a prepared statement that is not closed
    roDbs,            \* createAndTestDb's roDbs, as the number of handles appended
    wg,               \* counter of createAndTestDb's WaitGroup
    rdPc,             \* position of each reader goroutine
    rdRows,           \* rows the reader's selects has read
    rdEnd,            \* how the reader's selects ended
    mgrErr,           \* the call of createAndTestDb that failed, if any
    faults,           \* engine calls that have failed so far
    stat,             \* the engine's current value of each counter of each connection
    statGap,          \* by how much a counter's high-water value exceeds the current one
    aggI,             \* the aggregator's position in conns
    aggOp,            \* the aggregator's position in ops
    totalPerOp,       \* the aggregator's map totalPerOp
    printed,          \* the aggregator has printed its report
    report            \* the totals the aggregator printed, by counter kind

vars == <<instanceCount, insertsN, parallelSelects, mainPc, spawned, wgRun, mu,
          conns, closeFuncs, aggCount, sigReceived, closeIdx, closePos, closeErr,
          panicking, exited, mgrPc, mgrResult, dir, handle, table, tableExists,
          txRows, txOpen, insI, insJ, txCount, prepCount, stmtOpen, roDbs, wg, rdPc,
          rdRows, rdEnd,
          mgrErr, faults, stat, statGap, aggI, aggOp, totalPerOp, printed,
          report>>

\* groups of variables, for the UNCHANGED clauses
cfgVars == <<instanceCount, insertsN, parallelSelects>>
joinVars == <<spawned, wgRun>>
aggVars == <<stat, statGap, aggI, aggOp, totalPerOp, printed, report>>
downVars == <<aggCount, sigReceived, closeIdx, closePos, closeErr, aggVars>>
insVars == <<table, tableExists, txRows, txOpen, insI, insJ, txCount, prepCount,
             stmtOpen>>
rdVars == <<rdPc, rdRows, rdEnd>>
retVars == <<mgrResult, mgrErr, dir, faults>>

NoTask == <<0, 0>>

\* var ops = []int32{SQLITE_DBSTATUS_CACHE_USED, ...}
Ops == <<"CACHE_USED", "LOOKASIDE_USED", "SCHEMA_USED", "STMT_USED", "CACHE_SPILL">>

OpKinds == {Ops[i] : i \in 1..Len(Ops)}

\* totalPerOp := make(map[int32]int64)
EmptyMap == [o \in {} |-> 0]

\* the counters of the engine in the runs of the whole program: they differ
\* from connection to connection and from kind to kind
RunStat == [x \in Handles \X (1..Len(Ops)) |-> (x[1][1] + x[1][2] + x[2]) % 2]

\* the state of run() when it starts
InitRun ==
    /\ mainPc = "spawn"
    /\ spawned = 0
    /\ wgRun = 0
    /\ mu = NoTask
    /\ closeFuncs = <<>>
    /\ aggCount = 0
    /\ sigReceived = FALSE
    /\ closeIdx = 0
    /\ closePos = 0
    /\ closeErr = "none"
    /\ panicking = FALSE
    /\ exited = "running"
    /\ aggI = 0
    /\ aggOp = 0
    /\ totalPerOp = EmptyMap
    /\ printed = FALSE
    /\ report = EmptyMap
    /\ faults = 0

Init ==
    /\ instanceCount \in 0..MaxInstances
    /\ insertsN \in 0..MaxRows
    /\ parallelSelects \in 0..MaxReaders
    /\ instanceCount * (parallelSelects + 1) <= MaxGoroutines
    /\ instanceCount * insertsN <= MaxTotalRows
    /\ InitRun
    /\ conns = <<>>
    /\ stat = RunStat
    /\ statGap = 1
    /\ mgrPc = [m \in Instances |-> "idle"]
    /\ mgrResult = [m \in Instances |-> "none"]
    /\ dir = [m \in Instances |-> "none"]
    /\ handle = [h \in Handles |-> "none"]
    /\ table = [m \in Instances |-> <<>>]
    /\ tableExists = [m \in Instances |-> FALSE]
    /\ txRows = [m \in Instances |-> <<>>]
    /\ txOpen = [m \in Instances |-> FALSE]
    /\ insI = [m \in Instances |-> 0]
    /\ insJ = [m \in Instances |-> 0]
    /\ txCount = [m \in Instances |-> 0]
    /\ prepCount = [m \in Instances |-> 0]
    /\ stmtOpen = [m \in Instances |-> FALSE]
    /\ roDbs = [m \in Instances |-> 0]
    /\ wg = [m \in Instances |-> 0]
    /\ rdPc = [h \in Handles |-> "none"]
    /\ rdRows = [h \in Handles |-> 0]
    /\ rdEnd = [h \in Handles |-> "none"]
    /\ mgrErr = [m \in Instances |-> "none"]

Running == exited = "running"

\* an engine call fails
Fault ==
    /\ faults < MaxFaults
    /\ faults' = faults + 1

----------------------------------------------------------------------------
\* run(): the spawn loop and the join

\* for i := 0; i < 10; i++ { wg.Add(1); go func() {...}() }
Spawn ==
    /\ Running /\ mainPc = "spawn" /\ spawned < instanceCount
    /\ spawned' = spawned + 1
    /\ wgRun' = wgRun + 1
    /\ mgrPc' = [mgrPc EXCEPT ![spawned + 1] = "mkdir"]
    /\ UNCHANGED <<cfgVars, mainPc, mu, conns, closeFuncs, downVars, panicking,
                   exited, retVars, handle, insVars, roDbs, wg, rdVars>>

\* the loop ends; wg.Wait() is reached
SpawnDone ==
    /\ Running /\ mainPc = "spawn" /\ spawned >= instanceCount
    /\ mainPc' = "wait"
    /\ UNCHANGED <<cfgVars, joinVars, mu, conns, closeFuncs, downVars, panicking,
                   exited, mgrPc, retVars, handle, insVars, roDbs, wg, rdVars>>

\* faulty variant: run() does not wait for the managers
RunNoWait ==
    /\ Running /\ mainPc = "wait"
    /\ mainPc' = "aggregate"
    /\ UNCHANGED <<cfgVars, joinVars, mu, conns, closeFuncs, downVars, panicking,
                   exited, mgrPc, retVars, handle, insVars, roDbs, wg, rdVars>>

\* wg.Wait() returns when the counter is zero
RunWait ==
    /\ Running /\ mainPc = "wait" /\ wgRun = 0
    /\ mainPc' = "aggregate"
    /\ UNCHANGED <<cfgVars, joinVars, mu, conns, closeFuncs, downVars, panicking,
                   exited, mgrPc, retVars, handle, insVars, roDbs, wg, rdVars>>

----------------------------------------------------------------------------
\* the connection hook registered by run(): mu.Lock(); defer mu.Unlock();
\* conns = append(conns, dbPtr)

\* faulty variant: the hook does not wait for the mutex
HookLockFree(h) ==
    /\ mu' = h

HookLock(h) ==
    /\ mu = NoTask
    /\ mu' = h

\* faulty variant: the hook assigns the registry instead of appending to it
HookAppendAssign(h) ==
    /\ mu = h
    /\ conns' = <<h>>
    /\ mu' = NoTask

HookAppend(h) ==
    /\ mu = h
    /\ conns' = Append(conns, h)
    /\ mu' = NoTask

----------------------------------------------------------------------------
\* createAndTestDb, up to the write workload

W(m) == <<m, 0>>

\* what no step of a createAndTestDb goroutine changes
mgrFrame == <<cfgVars, mainPc, joinVars, downVars, exited, rdRows, rdEnd>>

\* return err, nil: the deferred os.RemoveAll(dir) runs when the directory was made
ReturnErr(m, why) ==
    /\ mgrPc' = [mgrPc EXCEPT ![m] = "ret_err"]
    /\ mgrResult' = [mgrResult EXCEPT ![m] = "err"]
    /\ mgrErr' = [mgrErr EXCEPT ![m] = why]
    /\ dir' = [dir EXCEPT ![m] = IF dir[m] = "exists" THEN "removed" ELSE dir[m]]
    /\ Fault

\* dir, err := os.MkdirTemp("", "test-*"); defer os.RemoveAll(dir)
Mkdir(m) ==
    /\ Running /\ mgrPc[m] = "mkdir"
    /\ \/ /\ dir' = [dir EXCEPT ![m] = "exists"]
          /\ mgrPc' = [mgrPc EXCEPT ![m] = "open"]
          /\ UNCHANGED <<mgrResult, mgrErr, faults>>
       \/ ReturnErr(m, "mkdir")
    /\ UNCHANGED <<mgrFrame, mu, conns, closeFuncs, panicking, handle, insVars,
                   roDbs, wg, rdPc>>

\* db, err := sql.Open("sqlite2", fn)
OpenDb(m) ==
    /\ Running /\ mgrPc[m] = "open"
    /\ \/ /\ handle' = [handle EXCEPT ![W(m)] = "lazy"]
          /\ mgrPc' = [mgrPc EXCEPT ![m] = "exec"]
          /\ UNCHANGED retVars
       \/ /\ ReturnErr(m, "open")
          /\ UNCHANGED handle
    /\ UNCHANGED <<mgrFrame, mu, conns, closeFuncs, panicking, insVars, roDbs, wg,
                   rdPc>>

\* db.Exec(...) first opens the engine connection of the write handle
ExecConnect(m) ==
    /\ Running /\ mgrPc[m] = "exec"
    /\ \/ /\ handle' = [handle EXCEPT ![W(m)] = "conn"]
          /\ mgrPc' = [mgrPc EXCEPT ![m] = "hook_lock"]
          /\ UNCHANGED retVars
       \/ /\ ReturnErr(m, "connect")
          /\ UNCHANGED handle
    /\ UNCHANGED <<mgrFrame, mu, conns, closeFuncs, panicking, insVars, roDbs, wg,
                   rdPc>>

\* the hook, called for the new connection of the write handle
MgrHookLock(m) ==
    /\ Running /\ mgrPc[m] = "hook_lock"
    /\ HookLock(W(m))
    /\ mgrPc' = [mgrPc EXCEPT ![m] = "hook_append"]
    /\ UNCHANGED <<mgrFrame, conns, closeFuncs, panicking, retVars, handle,
                   insVars, roDbs, wg, rdPc>>

MgrHookAppend(m) ==
    /\ Running /\ mgrPc[m] = "hook_append"
    /\ HookAppend(W(m))
    /\ mgrPc' = [mgrPc EXCEPT ![m] = "schema"]
    /\ UNCHANGED <<mgrFrame, closeFuncs, panicking, retVars, handle, insVars,
                   roDbs, wg, rdPc>>

\* faulty variant: the error of the schema Exec is ignored
SchemaErrIgnored(m) ==
    /\ Running /\ mgrPc[m] = "schema"
    /\ \/ /\ tableExists' = [tableExists EXCEPT ![m] = TRUE]
          /\ table' = [table EXCEPT ![m] = <<>>]
          /\ UNCHANGED <<mgrErr, faults>>
       \/ /\ mgrErr' = [mgrErr EXCEPT ![m] = "schema"]
          /\ Fault
          /\ UNCHANGED <<tableExists, table>>
    /\ mgrPc' = [mgrPc EXCEPT ![m] = "ins_loop"]
    /\ UNCHANGED <<mgrFrame, mu, conns, closeFuncs, panicking, mgrResult, dir,
                   handle, txRows, txOpen, insI, insJ, txCount, prepCount,
                   stmtOpen, roDbs, wg, rdPc>>

\* drop table if exists t; create table t(i int, str text);
Schema(m) ==
    /\ Running /\ mgrPc[m] = "schema"
    /\ \/ /\ tableExists' = [tableExists EXCEPT ![m] = TRUE]
          /\ table' = [table EXCEPT ![m] = <<>>]
          /\ mgrPc' = [mgrPc EXCEPT ![m] = "ins_loop"]
          /\ UNCHANGED retVars
       \/ /\ ReturnErr(m, "schema")
          /\ UNCHANGED <<tableExists, table>>
    /\ UNCHANGED <<mgrFrame, mu, conns, closeFuncs, panicking, handle, txRows,
                   txOpen, insI, insJ, txCount, prepCount, stmtOpen, roDbs, wg,
                   rdPc>>

----------------------------------------------------------------------------
\* inserts(db, n, commitEvery, minStringSize, maxStringSize), called with
\* n = insertsN and commitEvery = CommitEvery

\* tx.Rollback()
Rollback(m) ==
    /\ txRows' = [txRows EXCEPT ![m] = <<>>]
    /\ txOpen' = [txOpen EXCEPT ![m] = FALSE]

\* for i := 0; i < n; { tx, err := db.Begin()
InsBegin(m) ==
    /\ Running /\ mgrPc[m] = "ins_loop" /\ insI[m] < insertsN
    /\ \/ /\ txOpen' = [txOpen EXCEPT ![m] = TRUE]
          /\ txCount' = [txCount EXCEPT ![m] = @ + 1]
          /\ mgrPc' = [mgrPc EXCEPT ![m] = "ins_prepare"]
          /\ UNCHANGED retVars
       \/ /\ ReturnErr(m, "begin")
          /\ UNCHANGED <<txOpen, txCount>>
    /\ UNCHANGED <<mgrFrame, mu, conns, closeFuncs, panicking, handle, table,
                   tableExists, txRows, insI, insJ, prepCount, stmtOpen, roDbs, wg,
                   rdPc>>

\* stmt, err := tx.Prepare("insert into t values(?, ?)")
InsPrepare(m) ==
    /\ Running /\ mgrPc[m] = "ins_prepare"
    /\ \/ /\ insJ' = [insJ EXCEPT ![m] = 0]
          /\ prepCount' = [prepCount EXCEPT ![m] = @ + 1]
          /\ stmtOpen' = [stmtOpen EXCEPT ![m] = TRUE]
          /\ mgrPc' = [mgrPc EXCEPT ![m] = "ins_exec"]
          /\ UNCHANGED <<retVars, txRows, txOpen>>
       \/ /\ Rollback(m)
          /\ ReturnErr(m, "prepare")
          /\ UNCHANGED <<insJ, prepCount, stmtOpen>>
    /\ UNCHANGED <<mgrFrame, mu, conns, closeFuncs, panicking, handle, table,
                   tableExists, insI, txCount, roDbs, wg, rdPc>>

\* faulty variant: the inner loop runs once more than commitEvery allows
InsMoreOffByOne(m) == insJ[m] <= CommitEvery /\ insI[m] < insertsN

\* the condition of the inner loop: j < commitEvery && i < n
InsMore(m) == insJ[m] < CommitEvery /\ insI[m] < insertsN

\* stmt.Exec(i, randomString(...)); i++
InsExec(m) ==
    /\ Running /\ mgrPc[m] = "ins_exec" /\ InsMore(m)
    /\ \/ /\ txRows' = [txRows EXCEPT ![m] = Append(@, insI[m])]
          /\ insI' = [insI EXCEPT ![m] = @ + 1]
          /\ insJ' = [insJ EXCEPT ![m] = @ + 1]
          /\ UNCHANGED <<retVars, mgrPc, txOpen, stmtOpen>>
       \/ /\ stmtOpen' = [stmtOpen EXCEPT ![m] = FALSE]
          /\ Rollback(m)
          /\ ReturnErr(m, "exec")
          /\ UNCHANGED <<insI, insJ>>
    /\ UNCHANGED <<mgrFrame, mu, conns, closeFuncs, panicking, handle, table,
                   tableExists, txCount, prepCount, roDbs, wg, rdPc>>

\* faulty variant: the commit loses the last row of the batch
CommittedButLast(m) == table[m] \o SubSeq(txRows[m], 1, Len(txRows[m]) - 1)

\* the rows tx.Commit() makes visible
Committed(m) == table[m] \o txRows[m]

\* stmt.Close(); if err = tx.Commit(); err != nil { return err }: no Rollback
\* is called for a failed commit, after which the engine has either kept the
\* transaction open with its rows or rolled it back by itself
InsCommit(m) ==
    /\ Running /\ mgrPc[m] = "ins_exec" /\ ~InsMore(m)
    /\ stmtOpen' = [stmtOpen EXCEPT ![m] = FALSE]
    /\ \/ /\ table' = [table EXCEPT ![m] = Committed(m)]
          /\ txRows' = [txRows EXCEPT ![m] = <<>>]
          /\ txOpen' = [txOpen EXCEPT ![m] = FALSE]
          /\ mgrPc' = [mgrPc EXCEPT ![m] = "ins_loop"]
          /\ UNCHANGED retVars
       \/ /\ ReturnErr(m, "commit")
          /\ \/ UNCHANGED <<txRows, txOpen>>
             \/ Rollback(m)
          /\ UNCHANGED table
    /\ UNCHANGED <<mgrFrame, mu, conns, closeFuncs, panicking, handle,
                   tableExists, insI, insJ, txCount, prepCount, roDbs, wg, rdPc>>

\* faulty variant: inserts returns after any batch, not only when i has reached n
InsReturnEarly(m) ==
    /\ Running /\ mgrPc[m] = "ins_loop"
    /\ mgrPc' = [mgrPc EXCEPT ![m] = "ro_loop"]
    /\ UNCHANGED <<mgrFrame, mu, conns, closeFuncs, panicking, retVars, handle,
                   insVars, roDbs, wg, rdPc>>

\* the outer loop ends: return nil
InsReturn(m) ==
    /\ Running /\ mgrPc[m] = "ins_loop" /\ ~(insI[m] < insertsN)
    /\ mgrPc' = [mgrPc EXCEPT ![m] = "ro_loop"]
    /\ UNCHANGED <<mgrFrame, mu, conns, closeFuncs, panicking, retVars, handle,
                   insVars, roDbs, wg, rdPc>>

----------------------------------------------------------------------------
\* createAndTestDb: the reader loop, the join and the return

\* faulty variant: the reader goroutine is started without wg.Add(1)
RoOpenNoAdd(m) ==
    /\ Running /\ mgrPc[m] = "ro_loop" /\ roDbs[m] < parallelSelects
    /\ UNCHANGED wg
    /\ \/ /\ handle' = [handle EXCEPT ![<<m, roDbs[m] + 1>>] = "lazy"]
          /\ roDbs' = [roDbs EXCEPT ![m] = @ + 1]
          /\ rdPc' = [rdPc EXCEPT ![<<m, roDbs[m] + 1>>] = "query"]
          /\ UNCHANGED <<retVars, mgrPc>>
       \/ /\ ReturnErr(m, "roopen")
          /\ UNCHANGED <<handle, roDbs, rdPc>>
    /\ UNCHANGED <<mgrFrame, mu, conns, closeFuncs, panicking, insVars>>

\* for i := 0; i < parallelSelects; i++ { wg.Add(1);
\*   roDb, err := sql.Open("sqlite2", fn+"?mode=ro"); roDbs = append(roDbs, roDb);
\*   go func() {...}() }
RoOpen(m) ==
    /\ Running /\ mgrPc[m] = "ro_loop" /\ roDbs[m] < parallelSelects
    /\ wg' = [wg EXCEPT ![m] = @ + 1]
    /\ \/ /\ handle' = [handle EXCEPT ![<<m, roDbs[m] + 1>>] = "lazy"]
          /\ roDbs' = [roDbs EXCEPT ![m] = @ + 1]
          /\ rdPc' = [rdPc EXCEPT ![<<m, roDbs[m] + 1>>] = "query"]
          /\ UNCHANGED <<retVars, mgrPc>>
       \/ /\ ReturnErr(m, "roopen")
          /\ UNCHANGED <<handle, roDbs, rdPc>>
    /\ UNCHANGED <<mgrFrame, mu, conns, closeFuncs, panicking, insVars>>

\* the loop ends; wg.Wait() is reached
RoLoopDone(m) ==
    /\ Running /\ mgrPc[m] = "ro_loop" /\ ~(roDbs[m] < parallelSelects)
    /\ mgrPc' = [mgrPc EXCEPT ![m] = "wait"]
    /\ UNCHANGED <<mgrFrame, mu, conns, closeFuncs, panicking, retVars, handle,
                   insVars, roDbs, wg, rdPc>>

\* wg.Wait() returns; return nil, func() error {...}; the deferred
\* os.RemoveAll(dir) runs
MgrWait(m) ==
    /\ Running /\ mgrPc[m] = "wait" /\ wg[m] = 0
    /\ mgrPc' = [mgrPc EXCEPT ![m] = "ret_ok"]
    /\ mgrResult' = [mgrResult EXCEPT ![m] = "ok"]
    /\ dir' = [dir EXCEPT ![m] = "removed"]
    /\ UNCHANGED <<mgrFrame, mu, conns, closeFuncs, panicking, mgrErr, faults,
                   handle, insVars, roDbs, wg, rdPc>>

\* in run()'s goroutine: if err != nil { panic(err) }
MgrPanic(m) ==
    /\ Running /\ mgrPc[m] = "ret_err"
    /\ mgrPc' = [mgrPc EXCEPT ![m] = "panicked"]
    /\ panicking' = TRUE
    /\ UNCHANGED <<mgrFrame, mu, conns, closeFuncs, retVars, handle, insVars,
                   roDbs, wg, rdPc>>

\* mu.Lock()
CloseFuncLock(m) ==
    /\ Running /\ mgrPc[m] = "ret_ok"
    /\ mu = NoTask
    /\ mu' = W(m)
    /\ mgrPc' = [mgrPc EXCEPT ![m] = "cf_append"]
    /\ UNCHANGED <<mgrFrame, conns, closeFuncs, panicking, retVars, handle,
                   insVars, roDbs, wg, rdPc>>

\* faulty variant: the close function replaces the collected ones
CloseFuncAssign(m) ==
    /\ Running /\ mgrPc[m] = "cf_append"
    /\ mu = W(m)
    /\ closeFuncs' = <<m>>
    /\ mu' = NoTask
    /\ mgrPc' = [mgrPc EXCEPT ![m] = "cf_done"]
    /\ UNCHANGED <<cfgVars, mainPc, joinVars, downVars, exited, rdRows, rdEnd,
                   conns, panicking, retVars, handle, insVars, roDbs, wg, rdPc>>

\* closeFuncs = append(closeFuncs, closeFunc); mu.Unlock()
CloseFuncAppend(m) ==
    /\ Running /\ mgrPc[m] = "cf_append"
    /\ mu = W(m)
    /\ closeFuncs' = Append(closeFuncs, m)
    /\ mu' = NoTask
    /\ mgrPc' = [mgrPc EXCEPT ![m] = "cf_done"]
    /\ UNCHANGED <<cfgVars, mainPc, joinVars, downVars, exited, rdRows, rdEnd,
                   conns, panicking, retVars, handle, insVars, roDbs, wg, rdPc>>

\* faulty variant: the goroutine of run() ends without wg.Done()
MgrDoneMissing(m) ==
    /\ Running /\ mgrPc[m] = "cf_done"
    /\ mgrPc' = [mgrPc EXCEPT ![m] = "done"]
    /\ UNCHANGED <<cfgVars, mainPc, joinVars, downVars, exited, rdRows, rdEnd, mu,
                   conns, closeFuncs, panicking, retVars, handle, insVars, roDbs,
                   wg, rdPc>>

\* wg.Done()
MgrDone(m) ==
    /\ Running /\ mgrPc[m] = "cf_done"
    /\ wgRun' = wgRun - 1
    /\ mgrPc' = [mgrPc EXCEPT ![m] = "done"]
    /\ UNCHANGED <<cfgVars, mainPc, spawned, downVars, exited, rdRows, rdEnd, mu,
                   conns, closeFuncs, panicking, retVars, handle, insVars, roDbs,
                   wg, rdPc>>

----------------------------------------------------------------------------
\* the reader goroutine: defer wg.Done();
\* if err = selects(roDb, insertsN); err != nil { panic(err) }

\* what no step of a reader goroutine changes
rdFrame == <<cfgVars, mainPc, joinVars, downVars, exited, closeFuncs, mgrPc,
             mgrResult, mgrErr, dir, insVars, roDbs>>

\* select * from t WHERE i < ?
SelectRows(t, maxValue) == SelectSeq(t, LAMBDA k : k < maxValue)

\* the goroutine ends with selects' result how: the deferred wg.Done() runs,
\* also when the goroutine panics
RdEnd(h, how, n) ==
    /\ rdEnd' = [rdEnd EXCEPT ![h] = how]
    /\ rdRows' = [rdRows EXCEPT ![h] = n]
    /\ wg' = [wg EXCEPT ![h[1]] = @ - 1]

\* selects returned an error: panic(err)
RdPanic(h, how, n) ==
    /\ RdEnd(h, how, n)
    /\ rdPc' = [rdPc EXCEPT ![h] = "panicked"]
    /\ panicking' = TRUE
    /\ Fault

\* selects returned nil, with the cursor exhausted or after an iteration error
RdReturn(h, how, n) ==
    /\ RdEnd(h, how, n)
    /\ rdPc' = [rdPc EXCEPT ![h] = "done"]
    /\ IF how = "exhausted" THEN UNCHANGED faults ELSE Fault
    /\ UNCHANGED panicking

\* db.Query(...) first opens the engine connection of the read-only handle
RdConnect(h) ==
    /\ Running /\ rdPc[h] = "query"
    /\ \/ /\ handle' = [handle EXCEPT ![h] = "conn"]
          /\ rdPc' = [rdPc EXCEPT ![h] = "hook_lock"]
          /\ UNCHANGED <<rdRows, rdEnd, wg, panicking, faults>>
       \/ /\ RdPanic(h, "connect", 0)
          /\ UNCHANGED handle
    /\ UNCHANGED <<rdFrame, mu, conns>>

\* the hook, called for the new connection of the read-only handle
RdHookLock(h) ==
    /\ Running /\ rdPc[h] = "hook_lock"
    /\ HookLock(h)
    /\ rdPc' = [rdPc EXCEPT ![h] = "hook_append"]
    /\ UNCHANGED <<rdFrame, conns, handle, rdRows, rdEnd, wg, panicking, faults>>

RdHookAppend(h) ==
    /\ Running /\ rdPc[h] = "hook_append"
    /\ HookAppend(h)
    /\ rdPc' = [rdPc EXCEPT ![h] = "select"]
    /\ UNCHANGED <<rdFrame, handle, rdRows, rdEnd, wg, panicking, faults>>

\* selects(db, maxValue): the query runs on the committed rows; the cursor is
\* drained until rows.Next() returns false, which it does at the end of the
\* rows or at an iteration error; a rows.Scan error returns early
Selects(h) ==
    /\ Running /\ rdPc[h] = "select"
    /\ LET rows == SelectRows(table[h[1]], insertsN)
       IN \/ RdPanic(h, "query", 0)
          \/ \E k \in 0..(Len(rows) - 1) : RdPanic(h, "scan", k)
          \/ \E k \in 0..(Len(rows) - 1) : RdReturn(h, "iter", k)
          \/ RdReturn(h, "exhausted", Len(rows))
    /\ UNCHANGED <<rdFrame, mu, conns, handle>>

----------------------------------------------------------------------------
\* run(): aggregation, the wait for the signal and the teardown

\* what no step of run() after the join changes
runFrame == <<cfgVars, joinVars, mu, conns, closeFuncs, mgrPc, mgrResult, mgrErr,
              dir, insVars, roDbs, wg, rdVars>>

\* what no step of run() after the aggregation changes
tearFrame == <<runFrame, aggVars>>

\* what the aggregator has to do: for _, db := range conns { for _, op := range ops
AggMore == aggI <= Len(conns)

\* faulty variant: the high-water value is taken for the current one
StatusCurrentIsHighwater(h, k) == stat[<<h, k>>] + statGap

\* the value db_status writes to stats.current for connection h and kind k
StatusCurrent(h, k) == stat[<<h, k>>]

\* the value db_status writes to stats.highwater
StatusHighwater(h, k) == stat[<<h, k>>] + statGap

\* totalPerOp[op] += v: a key that is not in the map yet counts as 0
MapAdd(t, op, v) ==
    [o \in (DOMAIN t) \cup {op} |->
        IF o = op THEN (IF op \in DOMAIN t THEN t[op] ELSE 0) + v ELSE t[o]]

\* the aggregator panics
AggPanic ==
    /\ mainPc' = "panicked"
    /\ panicking' = TRUE
    /\ Fault

\* printSqliteMemoryUsageForAllDbs(tls, conns) is called: totalPerOp is made,
\* libc.Xmalloc returning 0 panics
Aggregate ==
    /\ Running /\ mainPc = "aggregate"
    /\ aggCount' = aggCount + 1
    /\ totalPerOp' = EmptyMap
    /\ \/ /\ mainPc' = "agg_loop"
          /\ aggI' = 1
          /\ aggOp' = 1
          /\ UNCHANGED <<panicking, faults>>
       \/ /\ AggPanic
          /\ UNCHANGED <<aggI, aggOp>>
    /\ UNCHANGED <<runFrame, stat, statGap, printed, report, sigReceived, closeIdx,
                   closePos, closeErr, exited, handle>>

\* one call of sqlite3_db_status: a return code that is not SQLITE_OK panics,
\* else totalPerOp[op] += int64(stats.current)
AggStatus ==
    /\ Running /\ mainPc = "agg_loop" /\ AggMore
    /\ \/ /\ totalPerOp' =
                MapAdd(totalPerOp, Ops[aggOp], StatusCurrent(conns[aggI], aggOp))
          /\ IF aggOp < Len(Ops)
                THEN aggOp' = aggOp + 1 /\ UNCHANGED aggI
                ELSE aggOp' = 1 /\ aggI' = aggI + 1
          /\ UNCHANGED <<mainPc, panicking, faults>>
       \/ /\ AggPanic
          /\ UNCHANGED <<totalPerOp, aggI, aggOp>>
    /\ UNCHANGED <<runFrame, stat, statGap, printed, report, aggCount, sigReceived,
                   closeIdx, closePos, closeErr, exited, handle>>

\* the loops are over: the header and one line for each key of totalPerOp are
\* printed; the function returns and run() reaches <-ch
AggPrint ==
    /\ Running /\ mainPc = "agg_loop" /\ ~AggMore
    /\ printed' = TRUE
    /\ report' = totalPerOp
    /\ mainPc' = "waitsig"
    /\ UNCHANGED <<runFrame, stat, statGap, aggI, aggOp, totalPerOp, aggCount,
                   sigReceived, closeIdx, closePos, closeErr, panicking, exited,
                   handle, faults>>

\* the environment delivers os.Interrupt to ch, once signal.Notify has run
Signal ==
    /\ Running /\ mainPc = "waitsig" /\ ~sigReceived
    /\ sigReceived' = TRUE
    /\ UNCHANGED <<tearFrame, mainPc, aggCount, closeIdx, closePos, closeErr,
                   panicking, exited, handle, faults>>

\* <-ch
RecvSignal ==
    /\ Running /\ mainPc = "waitsig" /\ sigReceived
    /\ mainPc' = "closing"
    /\ closeIdx' = 1
    /\ closePos' = 0
    /\ UNCHANGED <<tearFrame, aggCount, sigReceived, closeErr, panicking, exited,
                   handle, faults>>

\* a Close that returns an error ends the close function with that error, and
\* run() panics with it
CloseFail(h) ==
    /\ handle' = [handle EXCEPT ![h] = "closefailed"]
    /\ closeErr' = h
    /\ mainPc' = "panicked"
    /\ panicking' = TRUE
    /\ Fault
    /\ UNCHANGED <<closeIdx, closePos>>

\* inside closeFunc(): for _, roDb := range roDbs { err = roDb.Close() ... }
CloseRo ==
    /\ Running /\ mainPc = "closing" /\ closeIdx <= Len(closeFuncs)
    /\ closePos < roDbs[closeFuncs[closeIdx]]
    /\ LET h == <<closeFuncs[closeIdx], closePos + 1>>
       IN \/ /\ handle' = [handle EXCEPT ![h] = "closed"]
             /\ closePos' = closePos + 1
             /\ UNCHANGED <<mainPc, closeIdx, closeErr, panicking, faults>>
          \/ CloseFail(h)
    /\ UNCHANGED <<tearFrame, aggCount, sigReceived, exited>>

\* inside closeFunc(): return db.Close(); back in run(), the next closeFunc
\* faulty variant: db.Close() is called without waiting for the loop over roDbs
CloseDbFirst ==
    /\ Running /\ mainPc = "closing" /\ closeIdx <= Len(closeFuncs)
    /\ LET h == W(closeFuncs[closeIdx])
       IN \/ /\ handle' = [handle EXCEPT ![h] = "closed"]
             /\ closeIdx' = closeIdx + 1
             /\ closePos' = 0
             /\ UNCHANGED <<mainPc, closeErr, panicking, faults>>
          \/ CloseFail(h)
    /\ UNCHANGED <<tearFrame, aggCount, sigReceived, exited>>

CloseDb ==
    /\ Running /\ mainPc = "closing" /\ closeIdx <= Len(closeFuncs)
    /\ ~(closePos < roDbs[closeFuncs[closeIdx]])
    /\ LET h == W(closeFuncs[closeIdx])
       IN \/ /\ handle' = [handle EXCEPT ![h] = "closed"]
             /\ closeIdx' = closeIdx + 1
             /\ closePos' = 0
             /\ UNCHANGED <<mainPc, closeErr, panicking, faults>>
          \/ CloseFail(h)
    /\ UNCHANGED <<tearFrame, aggCount, sigReceived, exited>>

\* the range over closeFuncs ends: run() and main() return
RunReturn ==
    /\ Running /\ mainPc = "closing" /\ closeIdx > Len(closeFuncs)
    /\ mainPc' = "done"
    /\ exited' = "returned"
    /\ UNCHANGED <<tearFrame, aggCount, sigReceived, closeIdx, closePos, closeErr,
                   panicking, handle, faults>>

\* a panic that no goroutine recovers terminates the process
Crash ==
    /\ Running /\ panicking
    /\ exited' = "crashed"
    /\ UNCHANGED <<tearFrame, mainPc, aggCount, sigReceived, closeIdx, closePos,
                   closeErr, panicking, handle, faults>>

----------------------------------------------------------------------------

Next ==
    \/ Spawn \/ SpawnDone \/ RunWait \/ Aggregate \/ AggStatus \/ AggPrint
    \/ Signal \/ RecvSignal
    \/ CloseRo \/ CloseDb \/ RunReturn \/ Crash
    \/ \E m \in Instances :
          \/ Mkdir(m) \/ OpenDb(m) \/ ExecConnect(m) \/ MgrHookLock(m)
          \/ MgrHookAppend(m) \/ Schema(m)
          \/ InsBegin(m) \/ InsPrepare(m) \/ InsExec(m) \/ InsCommit(m)
          \/ InsReturn(m)
          \/ RoOpen(m) \/ RoLoopDone(m) \/ MgrWait(m) \/ MgrPanic(m)
          \/ CloseFuncLock(m) \/ CloseFuncAppend(m) \/ MgrDone(m)
    \/ \E h \in Instances \X Readers :
          \/ RdConnect(h) \/ RdHookLock(h) \/ RdHookAppend(h) \/ Selects(h)

Spec == Init /\ [][Next]_vars

\* the steps of the goroutine of run()
MainNext ==
    \/ Spawn \/ SpawnDone \/ RunWait \/ Aggregate \/ AggStatus \/ AggPrint
    \/ RecvSignal \/ CloseRo \/ CloseDb \/ RunReturn

\* the steps of the goroutine that calls createAndTestDb for instance m
MgrNext(m) ==
    \/ Mkdir(m) \/ OpenDb(m) \/ ExecConnect(m) \/ MgrHookLock(m)
    \/ MgrHookAppend(m) \/ Schema(m)
    \/ InsBegin(m) \/ InsPrepare(m) \/ InsExec(m) \/ InsCommit(m) \/ InsReturn(m)
    \/ RoOpen(m) \/ RoLoopDone(m) \/ MgrWait(m) \/ MgrPanic(m)
    \/ CloseFuncLock(m) \/ CloseFuncAppend(m) \/ MgrDone(m)

\* the steps of reader goroutine h
RdNext(h) == RdConnect(h) \/ RdHookLock(h) \/ RdHookAppend(h) \/ Selects(h)

\* the Go scheduler runs every goroutine that stays runnable; the signal is
\* the environment's and is under no fairness
SpecFair ==
    /\ Spec
    /\ WF_vars(MainNext)
    /\ \A m \in Instances : WF_vars(MgrNext(m))
    /\ \A h \in Instances \X Readers : WF_vars(RdNext(h))

\* the values a counter of the engine is drawn from
StatValues == 0..1

\* the aggregator from its call on, for every registry content (the write
\* handles of instanceCount managers without readers, none for no manager) and
\* every value of the engine's counters: the state of run() when wg.Wait()
\* has returned
InitAgg ==
    /\ instanceCount \in 0..MaxInstances
    /\ insertsN = 0
    /\ parallelSelects = 0
    /\ mainPc = "aggregate"
    /\ spawned = instanceCount
    /\ wgRun = 0
    /\ mu = NoTask
    /\ conns = [i \in 1..instanceCount |-> W(i)]
    /\ closeFuncs = [i \in 1..instanceCount |-> i]
    /\ aggCount = 0
    /\ sigReceived = FALSE
    /\ closeIdx = 0
    /\ closePos = 0
    /\ closeErr = "none"
    /\ panicking = FALSE
    /\ exited = "running"
    /\ aggI = 0
    /\ aggOp = 0
    /\ totalPerOp = EmptyMap
    /\ printed = FALSE
    /\ report = EmptyMap
    /\ faults = 0
    /\ \E g \in [(1..instanceCount) \X (1..Len(Ops)) -> StatValues] :
          stat = [x \in Handles \X (1..Len(Ops)) |->
                     IF x[1][2] = 0 /\ x[1][1] <= instanceCount
                        THEN g[<<x[1][1], x[2]>>] ELSE 0]
    /\ statGap = 1
    /\ mgrPc = [m \in Instances |-> IF m <= instanceCount THEN "done" ELSE "idle"]
    /\ mgrResult = [m \in Instances |-> IF m <= instanceCount THEN "ok" ELSE "none"]
    /\ dir = [m \in Instances |-> IF m <= instanceCount THEN "removed" ELSE "none"]
    /\ handle = [h \in Handles |->
                    IF h[2] = 0 /\ h[1] <= instanceCount THEN "conn" ELSE "none"]
    /\ table = [m \in Instances |-> <<>>]
    /\ tableExists = [m \in Instances |-> m <= instanceCount]
    /\ txRows = [m \in Instances |-> <<>>]
    /\ txOpen = [m \in Instances |-> FALSE]
    /\ insI = [m \in Instances |-> 0]
    /\ insJ = [m \in Instances |-> 0]
    /\ txCount = [m \in Instances |-> 0]
    /\ prepCount = [m \in Instances |-> 0]
    /\ stmtOpen = [m \in Instances |-> FALSE]
    /\ roDbs = [m \in Instances |-> 0]
    /\ wg = [m \in Instances |-> 0]
    /\ rdPc = [h \in Handles |-> "none"]
    /\ rdRows = [h \in Handles |-> 0]
    /\ rdEnd = [h \in Handles |-> "none"]
    /\ mgrErr = [m \in Instances |-> "none"]

NextAgg == Aggregate \/ AggStatus \/ AggPrint \/ Crash

SpecAgg == InitAgg /\ [][NextAgg]_vars

----------------------------------------------------------------------------
\* Vocabulary of the properties

Range(q) == {q[i] : i \in 1..Len(q)}

Started == 1..instanceCount

\* the reader goroutines createAndTestDb(m) may start
ReadersOf(m) == {<<m, r>> : r \in 1..parallelSelects}

\* the keys 0..n-1 in order
Keys(n) == [k \in 1..n |-> k - 1]

\* inserts has returned nil for instance m with every batch committed
WriteWorkloadDone(m) ==
    /\ mgrPc[m] \in {"ro_loop", "wait", "ret_ok", "cf_append", "cf_done", "done",
                     "ret_err", "panicked"}
    /\ mgrErr[m] \in {"none", "roopen"}
    /\ insI[m] = insertsN
    /\ table[m] = Keys(insertsN)
    /\ txRows[m] = <<>>
    /\ ~txOpen[m]

\* the reader goroutine is running
RdRunning(h) == rdPc[h] \in {"query", "hook_lock", "hook_append", "select"}

\* run()'s wg.Wait() has returned
Joined ==
    mainPc \in {"aggregate", "agg_loop", "waitsig", "closing", "done", "panicked"}

\* an open of a handle or of its engine connection has failed
OpenFailed ==
    \/ \E m \in Instances : mgrErr[m] \in {"open", "connect", "roopen"}
    \/ \E h \in Handles : rdEnd[h] = "connect"

\* selects of reader h returned an error
RdFailed(h) == rdEnd[h] \in {"connect", "query", "scan"}

\* the handles the close function of instance m closes
Bundle(m) == {W(m)} \cup {<<m, r>> : r \in 1..roDbs[m]}

\* a Close has been called on the handle
CloseAttempted(h) == handle[h] \in {"closed", "closefailed"}

\* the sum of the engine's current values of kind k over the first n entries
\* of conns
RECURSIVE CurrentSum(_, _)
CurrentSum(k, n) == IF n = 0 THEN 0 ELSE CurrentSum(k, n - 1) + stat[<<conns[n], k>>]

\* the number of batches of at most b rows that n rows make
Batches(n, b) == (n + b - 1) \div b

\* inserts is running for instance m and no call of it has failed
Inserting(m) == mgrPc[m] \in {"ins_loop", "ins_prepare", "ins_exec"}

\* inserts has returned nil for instance m
InsertsDone(m) ==
    /\ mgrPc[m] \in {"ro_loop", "wait", "ret_ok", "cf_append", "cf_done", "done",
                     "ret_err", "panicked"}
    /\ mgrErr[m] \in {"none", "roopen"}

\* printSqliteMemoryUsageForAllDbs is reading conns
Aggregating == mainPc \in {"aggregate", "agg_loop"}

\* goroutine h (a manager under the name of its write handle, or a reader)
\* can still open an engine connection, which calls the hook, or start a
\* reader that can
CanRegister(h) ==
    IF h[2] = 0
       THEN /\ h[1] \in 1..instanceCount
            /\ mgrPc[h[1]] \in {"idle", "mkdir", "open", "exec", "hook_lock",
                                "hook_append", "schema", "ins_loop", "ins_prepare",
                                "ins_exec", "ro_loop"}
       ELSE RdRunning(h)

\* goroutine h (a manager under the name of its write handle, or a reader) is
\* between mu.Lock() and mu.Unlock(), where conns or closeFuncs is appended to
Mutating(h) ==
    IF h[2] = 0 THEN mgrPc[h[1]] \in {"hook_append", "cf_append"}
                ELSE rdPc[h] = "hook_append"

\* goroutine h is waiting in mu.Lock()
Locking(h) ==
    IF h[2] = 0 THEN mgrPc[h[1]] \in {"hook_lock", "ret_ok"}
                ELSE rdPc[h] = "hook_lock"

\* the hook has returned for the connection of handle h
HookDone(h) ==
    IF h[2] = 0
       THEN /\ mgrPc[h[1]] \notin {"idle", "mkdir", "open", "exec", "hook_lock",
                                   "hook_append"}
            /\ mgrErr[h[1]] \notin {"mkdir", "open", "connect"}
       ELSE /\ rdPc[h] \notin {"none", "query", "hook_lock", "hook_append"}
            /\ rdEnd[h] # "connect"

----------------------------------------------------------------------------
\* C1: within one instance no read-only handle is opened and no reader
\* goroutine exists before inserts has returned with every batch committed, so
\* that every query of a reader runs on the fully populated table, whatever the
\* other instances are doing.
C1_ReadersAfterWrites ==
    \A m \in Instances : \A r \in Readers :
        (handle[<<m, r>>] # "none" \/ rdPc[<<m, r>>] # "none" \/ wg[m] > 0)
            => WriteWorkloadDone(m)

\* a reader is about to run its query while another instance is still writing
C1_Witness ==
    /\ insertsN = MaxRows
    /\ \E h \in Handles : \E m \in Instances :
          /\ rdPc[h] = "select"
          /\ m # h[1]
          /\ mgrPc[m] = "ins_exec"

\* C2: when no open has failed and run()'s join has returned, the registry
\* holds exactly instanceCount * (parallelSelects + 1) entries, one for each
\* engine connection that was opened; and no step removes or reorders an entry.
C2_RegistryAtJoin ==
    (Joined /\ ~OpenFailed) =>
        /\ Len(conns) = instanceCount * (parallelSelects + 1)
        /\ Cardinality(Range(conns)) = Len(conns)
        /\ Range(conns) = {h \in Handles : handle[h] \notin {"none", "lazy"}}

C2_RegistryGrows ==
    /\ Len(conns') >= Len(conns)
    /\ SubSeq(conns', 1, Len(conns)) = conns

C2_Registry == [](C2_RegistryAtJoin) /\ [][C2_RegistryGrows]_vars

\* two instances with one reader each have been joined: four connections
C2_Witness ==
    /\ mainPc = "waitsig"
    /\ instanceCount = 2 /\ parallelSelects = 1
    /\ ~OpenFailed
    /\ Len(conns) = 4

\* C3: printSqliteMemoryUsageForAllDbs is called at most once, and only when
\* every manager has returned nil; it has been called exactly once whenever
\* run() is past it; and it is never called once a manager has returned an error.
C3_AggregateOnce ==
    /\ aggCount <= 1
    /\ aggCount = 1 => \A m \in Started : mgrResult[m] = "ok"
    /\ mainPc \in {"waitsig", "closing", "done"} => aggCount = 1
    /\ (\E m \in Instances : mgrResult[m] = "err") => aggCount = 0

\* the aggregation has run after two managers returned
C3_Witness ==
    /\ aggCount = 1
    /\ instanceCount = 2
    /\ \A m \in Started : mgrResult[m] = "ok"

\* C4: the temporary directory of an instance is removed only after the
\* shutdown signal has been received; stated for the instances whose
\* createAndTestDb returned nil, whose handles stay open until the teardown.
C4_RemovedOnlyAfterSignal ==
    \A m \in Instances :
        (mgrResult[m] = "ok" /\ dir[m] = "removed") => sigReceived

\* C5: at the end of the teardown, also when a Close has returned an error, a
\* Close has been attempted on every handle of every collected close function.
C5_AllClosesAttempted ==
    (mainPc \in {"done", "panicked"} /\ closeIdx >= 1) =>
        \A m \in Range(closeFuncs) : \A h \in Bundle(m) : CloseAttempted(h)

\* C6: whenever createAndTestDb has returned, none of the reader goroutines it
\* started is still running.
C6_ReadersJoinedAtReturn ==
    \A m \in Instances :
        mgrResult[m] # "none" => \A r \in Readers : ~RdRunning(<<m, r>>)

\* C7: when createAndTestDb has returned nil the table holds exactly the keys
\* 0..insertsN-1, the query with bound insertsN + 1 and the query with bound
\* insertsN both select exactly insertsN rows, and every reader whose cursor
\* was drained without an engine error has read insertsN rows.
C7_FullTable ==
    \A m \in Instances :
        mgrResult[m] = "ok" =>
            /\ table[m] = Keys(insertsN)
            /\ Len(SelectRows(table[m], insertsN + 1)) = insertsN
            /\ Len(SelectRows(table[m], insertsN)) = insertsN
            /\ \A h \in ReadersOf(m) :
                  rdEnd[h] = "exhausted" => rdRows[h] = insertsN

\* the empty table: a reader has drained zero rows and createAndTestDb returned nil
C7_Witness ==
    /\ insertsN = 0
    /\ parallelSelects >= 1
    /\ \E m \in Instances :
          /\ mgrResult[m] = "ok"
          /\ tableExists[m]
          /\ rdEnd[<<m, 1>>] = "exhausted"

\* three rows in two batches, read by a reader
C7_WitnessRows ==
    /\ insertsN = MaxRows
    /\ \E m \in Instances :
          /\ mgrResult[m] = "ok"
          /\ txCount[m] > 1
          /\ rdEnd[<<m, 1>>] = "exhausted"

\* C8: the close function of a createAndTestDb that returned nil closes exactly
\* parallelSelects + 1 handles, the write handle and every read-only handle
\* that was opened; and after run()'s join closeFuncs holds exactly one close
\* function for each of the instanceCount instances.
C8_BundleSize ==
    /\ \A m \in Instances :
          mgrResult[m] = "ok" =>
              /\ Cardinality(Bundle(m)) = parallelSelects + 1
              /\ Bundle(m) = {h \in Handles : h[1] = m /\ handle[h] # "none"}
    /\ Joined =>
          /\ Len(closeFuncs) = instanceCount
          /\ Range(closeFuncs) = Started

\* no readers: two bundles of one handle each have been collected
C8_Witness ==
    /\ Joined
    /\ parallelSelects = 0
    /\ instanceCount = 2
    /\ Len(closeFuncs) = 2

\* C9: once selects of a reader has returned an error, createAndTestDb of its
\* instance does not return nil, no close function of the instance is
\* collected, the aggregation does not run and run() does not return.
C9_ReaderFailureFatal ==
    \A h \in Handles :
        RdFailed(h) =>
            /\ mgrResult[h[1]] # "ok"
            /\ h[1] \notin Range(closeFuncs)
            /\ aggCount = 0
            /\ exited # "returned"

\* C10: when the schema Exec has failed, createAndTestDb returns an error and
\* no close function, inserts is never called, no read-only handle is opened
\* and no reader goroutine is started for the instance.
C10_SchemaFailureAborts ==
    \A m \in Instances :
        mgrErr[m] = "schema" =>
            /\ mgrResult[m] = "err"
            /\ m \notin Range(closeFuncs)
            /\ txCount[m] = 0 /\ insI[m] = 0 /\ table[m] = <<>> /\ ~txOpen[m]
            /\ \A r \in Readers :
                  handle[<<m, r>>] = "none" /\ rdPc[<<m, r>>] = "none"
            /\ wg[m] = 0

\* the schema Exec failed in a run that asked for rows and readers
C10_Witness ==
    /\ insertsN > 0
    /\ parallelSelects > 0
    /\ \E m \in Instances : mgrErr[m] = "schema" /\ mgrPc[m] = "panicked"

\* C11: every report the aggregator prints has one total for each of the five
\* counter kinds, whatever the registry holds (nothing included), and no
\* total is negative.
C11_FiveKinds ==
    printed =>
        /\ DOMAIN report = OpKinds
        /\ \A o \in OpKinds : report[o] >= 0

\* C12: no Close is called on any handle before the signal has been received,
\* and within the close function of an instance db.Close() is called only
\* after Close has been called on every read-only handle of the instance.
C12_CloseOrder ==
    /\ (\E h \in Handles : CloseAttempted(h)) =>
          sigReceived /\ mainPc \in {"closing", "done", "panicked"}
    /\ \A m \in Instances :
          CloseAttempted(W(m)) =>
              \A h \in Bundle(m) \ {W(m)} : handle[h] = "closed"

\* the write handle of an instance with two readers has been closed
C12_Witness ==
    \E m \in Instances :
        /\ roDbs[m] = 2
        /\ handle[W(m)] = "closed"

\* C13: conns and closeFuncs are only appended to by the goroutine that holds
\* mu: at most one goroutine is between Lock and Unlock and it is the holder, the
\* holder is never waiting for a mutex, and no append is lost: conns holds
\* each connection whose hook has returned once, closeFuncs each manager that
\* has appended its close function once.
C13_MutexDiscipline ==
    /\ Cardinality({h \in Handles : Mutating(h)}) <= 1
    /\ \A h \in Handles : Mutating(h) <=> mu = h
    /\ \A h \in Handles : mu = h => ~Locking(h)
    /\ Range(conns) = {h \in Handles : HookDone(h)}
    /\ Cardinality(Range(conns)) = Len(conns)
    /\ Range(closeFuncs) = {m \in Instances : mgrPc[m] \in {"cf_done", "done"}}
    /\ Cardinality(Range(closeFuncs)) = Len(closeFuncs)

\* a manager holds mu to append its close function while a reader of another
\* instance waits in mu.Lock(), with connections registered before
C13_Witness ==
    \E m \in Instances : \E h \in Instances \X Readers :
        /\ mgrPc[m] = "cf_append"
        /\ h[1] # m
        /\ rdPc[h] = "hook_lock"
        /\ Len(conns) >= 2

\* C14: while the aggregator reads conns without the mutex, no goroutine is in
\* the hook or waiting for it, no manager is still running and no manager or reader
\* that can still open a connection exists, and every registered handle is
\* open; no step changes conns.
C14_QuiescentRegistry ==
    Aggregating =>
        /\ mu = NoTask
        /\ \A h \in Handles : ~CanRegister(h) /\ ~Mutating(h) /\ ~Locking(h)
        /\ \A m \in Started : mgrPc[m] = "done"
        /\ \A h \in Range(conns) : handle[h] = "conn"
        /\ \A h \in Handles : ~CloseAttempted(h)

C14_RegistryStable == Aggregating => conns' = conns

C14_NoOverlap == [](C14_QuiescentRegistry) /\ [][C14_RegistryStable]_vars

\* the aggregator is in the middle of a registry that two instances and
\* their readers have filled
C14_Witness ==
    /\ mainPc = "agg_loop"
    /\ aggI = 2
    /\ instanceCount = 2 /\ parallelSelects = 1
    /\ Len(conns) = 4

\* C15: when Begin, Prepare, Exec or Commit of a batch has failed, inserts has
\* returned the error at once, the transaction of the batch is rolled back and
\* none is left open, and the table holds exactly the rows of the batches
\* committed before.
C15_FailedBatchRolledBack ==
    \A m \in Instances :
        mgrErr[m] \in {"begin", "prepare", "exec", "commit"} =>
            /\ mgrResult[m] = "err"
            /\ mgrPc[m] \in {"ret_err", "panicked"}
            /\ ~txOpen[m]
            /\ txRows[m] = <<>>
            /\ table[m] =
                  Keys(CommitEvery * (txCount[m] - IF mgrErr[m] = "begin" THEN 0 ELSE 1))

\* C16: without a failure, inserts returns after exactly
\* ceil(insertsN / CommitEvery) transactions, each of them begun with none
\* open, with one statement prepared, min(CommitEvery, remaining) >= 1 rows
\* executed, the statement closed and the transaction committed; the keys
\* 0..insertsN-1 are written once each, in order.
C16_BatchShape ==
    \A m \in Instances :
        /\ (Inserting(m) \/ InsertsDone(m)) =>
              /\ table[m] \o txRows[m] = Keys(insI[m])
              /\ Len(table[m]) =
                    IF txOpen[m] THEN CommitEvery * (txCount[m] - 1) ELSE insI[m]
              /\ txOpen[m] <=> mgrPc[m] \in {"ins_prepare", "ins_exec"}
              /\ stmtOpen[m] <=> mgrPc[m] = "ins_exec"
              /\ prepCount[m] = txCount[m] - IF mgrPc[m] = "ins_prepare" THEN 1 ELSE 0
              /\ txCount[m] = Batches(Len(table[m]), CommitEvery) + IF txOpen[m] THEN 1 ELSE 0
        /\ (mgrPc[m] = "ins_exec" /\ ~InsMore(m)) =>
              /\ Len(txRows[m]) >= 1
              /\ Len(txRows[m]) =
                    IF insertsN - Len(table[m]) < CommitEvery
                       THEN insertsN - Len(table[m]) ELSE CommitEvery
        /\ InsertsDone(m) =>
              /\ txCount[m] = Batches(insertsN, CommitEvery)
              /\ prepCount[m] = txCount[m]
              /\ table[m] = Keys(insertsN)

\* inserts has returned after a full batch and a last, short one
C16_Witness ==
    \E m \in Instances :
        /\ InsertsDone(m)
        /\ insertsN = CommitEvery + 1
        /\ txCount[m] = 2
        /\ faults = 0

\* C17: each total of the printed report is the sum over conns of the
\* engine's current value of that kind alone; while the aggregator runs, each
\* running total is the sum over the calls made so far; and once a call has
\* failed nothing is printed.
C17_TotalsAreCurrentSums ==
    /\ printed =>
          /\ Len(conns) > 0 => DOMAIN report = OpKinds
          /\ \A k \in 1..Len(Ops) :
                Ops[k] \in DOMAIN report =>
                    report[Ops[k]] = CurrentSum(k, Len(conns))
    /\ mainPc = "agg_loop" =>
          \A k \in 1..Len(Ops) :
              Ops[k] \in DOMAIN totalPerOp =>
                  totalPerOp[Ops[k]] =
                      IF AggMore /\ k < aggOp THEN CurrentSum(k, aggI)
                                              ELSE CurrentSum(k, aggI - 1)
    /\ (mainPc = "panicked" /\ closeErr = "none") => ~printed /\ report = EmptyMap

\* a report over two connections in which the kinds have different totals
C17_Witness ==
    /\ printed
    /\ Len(conns) = 2
    /\ report["CACHE_USED"] = 2
    /\ report["SCHEMA_USED"] = 1
    /\ report["CACHE_SPILL"] = 0

\* C18: when createAndTestDb has returned, every handle it opened is either
\* one the returned close function closes or is closed already: an error
\* return leaves no open handle behind.
C18_NoHandleLeaked ==
    \A m \in Instances : \A h \in Handles :
        h[1] = m =>
            /\ mgrResult[m] = "ok" => (handle[h] = "none" \/ h \in Bundle(m))
            /\ mgrResult[m] = "err" => handle[h] \in {"none", "closed"}

\* C20: selects returns nil only when the cursor has been read to its end: a
\* reader whose selects returned nil has seen every row of the query, and an
\* error of the iteration makes selects return an error.
C20_NilOnlyWhenExhausted ==
    \A h \in Handles :
        rdPc[h] = "done" =>
            /\ rdEnd[h] = "exhausted"
            /\ rdRows[h] = Len(SelectRows(table[h[1]], insertsN))

\* C19: unless an engine call fails, every manager and every reader finishes,
\* run()'s wg.Wait() returns, the aggregator prints its report and run()
\* waits for the signal; and once the signal has been received, unless a call
\* fails, every handle of every close function is closed and run() returns.
C19_AtSignalWait ==
    /\ mainPc \in {"waitsig", "closing", "done"}
    /\ printed
    /\ \A m \in Started : mgrPc[m] = "done"
    /\ \A h \in Handles : ~RdRunning(h)

C19_ShutDown ==
    /\ exited = "returned"
    /\ \A m \in Started : \A h \in Bundle(m) : handle[h] = "closed"

C19_Termination ==
    /\ <>(faults > 0 \/ C19_AtSignalWait)
    /\ sigReceived ~> (faults > 0 \/ C19_ShutDown)

\* run() has returned without any failure after closing the handles of two
\* instances with a reader each
C19_Witness ==
    /\ exited = "returned"
    /\ faults = 0
    /\ instanceCount = 2 /\ parallelSelects = 1
    /\ \A m \in Started : \A h \in Bundle(m) : handle[h] = "closed"

====
